---- MODULE Spec2Model ----
(***************************************************************************)
(* Model of package nmf (src/nmf.go): non-negative matrix factorisation by *)
(* alternating non-negative least squares using projected gradients.       *)
(*                                                                         *)
(* Factors and nnlsSubproblem are modelled as one state machine.  Factors  *)
(* steps through its set-up, the head of its main loop, the two calls of   *)
(* nnlsSubproblem and their returns; nnlsSubproblem steps through the head *)
(* of its outer loop and one iteration of its inner line search at a time. *)
(*                                                                         *)
(* Numbers.  The float64 values of the program are modelled by exact       *)
(* decimal fractions m / 10^e.  Every constant of the program (1, 0.1,     *)
(* 0.99, 0.5, 0.001) is such a fraction and the program only adds,         *)
(* subtracts, multiplies, compares and divides by beta = 0.1, so the       *)
(* arithmetic is closed and exact: rounding is not modelled.  A value      *)
(* whose mantissa needs more than Digits decimal digits is outside the     *)
(* model (NaD): a step that would produce one is not taken, so a run is    *)
(* followed as long as its values are exactly representable.               *)
(*                                                                         *)
(* Norms.  Frobenius norms are square roots, so the model keeps the        *)
(* squares: gradSq is grad^2, tolWSq is tolW^2, and a test  a < b  between *)
(* non-negative norms is made as  a^2 < b^2.                               *)
(*                                                                         *)
(* Time.  elapsed is time.Now().Sub(to) in clock units.  The set-up of     *)
(* Factors takes 0 or 1 unit, one outer iteration (two solves) takes at    *)
(* least one unit, and the clock is not followed beyond TimeCap, where it  *)
(* exceeds every Limit that can be exceeded.                               *)
(***************************************************************************)
EXTENDS Integers, Sequences, FiniteSets, TLC

(***************************************************************************)
(* Bounds of the model.                                                    *)
(***************************************************************************)
\* Decimal digits of a mantissa that the model follows exactly.
Digits == 8
\* Largest Config.MaxIter explored.
MaxIterBound == 2
\* Largest Config.MaxOuterSub explored.
MaxOuterBound == 2
\* Largest Config.MaxInnerSub explored.
MaxInnerBound == 3
\* The clock is followed up to TimeCap units; Limit ranges over 0..TimeCap.
TimeCap == 2
\* Most clock units one outer iteration of Factors may take.
MaxTick == 2

(***************************************************************************)
(* Exact decimal arithmetic: [m |-> mantissa, e |-> exponent] is m / 10^e, *)
(* normalised so that the representation of a value is unique.             *)
(***************************************************************************)
Abs(x) == IF x < 0 THEN -x ELSE x

Max(a, b) == IF a < b THEN b ELSE a

Min(a, b) == IF a < b THEN a ELSE b

RECURSIVE Pow10(_)
Pow10(k) == IF k = 0 THEN 1 ELSE 10 * Pow10(k - 1)

\* Mantissas stay below Cap in magnitude.
Cap == Pow10(Digits)

\* An unrepresentable value.
NaD == [m |-> 0, e |-> -1]

IsNaD(a) == a.e < 0

RECURSIVE Norm(_, _)
Norm(m, e) ==
    IF m = 0 THEN [m |-> 0, e |-> 0]
    ELSE IF e > 0 /\ m % 10 = 0 THEN Norm(m \div 10, e - 1)
    ELSE [m |-> m, e |-> e]

\* The decimal m / 10^e.
D(m, e) == IF Abs(m) >= Cap THEN NaD ELSE Norm(m, e)

Zero == D(0, 0)

One == D(1, 0)

NegD(a) == IF IsNaD(a) THEN NaD ELSE [m |-> -a.m, e |-> a.e]

\* m * 10^k when that fits, else Cap (which no mantissa equals).
Shift(m, k) ==
    IF m = 0 THEN 0
    ELSE IF k > Digits THEN Cap
    ELSE IF Abs(m) > (Cap - 1) \div Pow10(k) THEN Cap
    ELSE m * Pow10(k)

AddD(a, b) ==
    IF IsNaD(a) \/ IsNaD(b) THEN NaD
    ELSE LET E  == Max(a.e, b.e)
             sa == Shift(a.m, E - a.e)
             sb == Shift(b.m, E - b.e)
         IN  IF sa = Cap \/ sb = Cap THEN NaD ELSE D(sa + sb, E)

SubD(a, b) == AddD(a, NegD(b))

MulD(a, b) ==
    IF IsNaD(a) \/ IsNaD(b) THEN NaD
    ELSE IF a.m = 0 \/ b.m = 0 THEN Zero
    ELSE IF Abs(a.m) > (Cap - 1) \div Abs(b.m) THEN NaD
    ELSE D(a.m * b.m, a.e + b.e)

\* p * 10^k < x, computed without forming p * 10^k.
RECURSIVE LtScaled(_, _, _)
LtScaled(p, k, x) ==
    IF k = 0 THEN p < x
    ELSE LtScaled(p, k - 1, -((-x) \div 10))

\* a < b for representable a and b; never overflows.
LtD(a, b) ==
    IF a.e <= b.e THEN LtScaled(a.m, b.e - a.e, b.m)
    ELSE ~LtScaled(b.m, a.e - b.e, a.m + 1)

MaxD(a, b) == IF LtD(a, b) THEN b ELSE a

(***************************************************************************)
(* Dense matrices (mat64.Dense): a matrix is the sequence of its rows and  *)
(* the empty matrix is << >>.  The operators are the mat64 methods the     *)
(* program calls, computed entry by entry.                                 *)
(***************************************************************************)
Rows(A) == Len(A)

Cols(A) == IF Len(A) = 0 THEN 0 ELSE Len(A[1])

\* The matrix of the integers in A.
IntMat(A) == [r \in 1..Len(A) |-> [k \in 1..Len(A[r]) |-> D(A[r][k], 0)]]

Representable(A) == \A r \in 1..Len(A) : \A k \in 1..Len(A[r]) : ~IsNaD(A[r][k])

RECURSIVE SumD(_, _)
SumD(f, n) == IF n = 0 THEN Zero ELSE AddD(SumD(f, n - 1), f[n])

TCopy(A) == [k \in 1..Cols(A) |-> [r \in 1..Rows(A) |-> A[r][k]]]

Mul(A, B) ==
    [r \in 1..Rows(A) |-> [k \in 1..Cols(B) |->
        SumD([x \in 1..Cols(A) |-> MulD(A[r][x], B[x][k])], Cols(A))]]

Sub(A, B) == [r \in 1..Rows(A) |-> [k \in 1..Cols(A) |-> SubD(A[r][k], B[r][k])]]

Scale(f, A) == [r \in 1..Rows(A) |-> [k \in 1..Cols(A) |-> MulD(f, A[r][k])]]

MulElem(A, B) == [r \in 1..Rows(A) |-> [k \in 1..Cols(A) |-> MulD(A[r][k], B[r][k])]]

\* Sum of all entries.
Sum(A) == SumD([r \in 1..Rows(A) |-> SumD(A[r], Cols(A))], Rows(A))

\* Square of the Frobenius norm, Norm(0).
NormSq(A) == Sum(MulElem(A, A))

\* a stacked on b.
Stack(A, B) == A \o B

Equals(A, B) == A = B

(***************************************************************************)
(* The element filters of the program.                                     *)
(***************************************************************************)
\* Mutant of posFilt: the clamp is missing.
posFiltKeep(v) == v

\* posFilt: v if v > 0, else 0 (an unrepresentable value stays one).
posFilt(v) == IF IsNaD(v) THEN NaD ELSE IF LtD(Zero, v) THEN v ELSE Zero

\* decFilt, decFiltW, decFiltH at one entry: v is the gradient's entry and h
\* the entry of the factor the closure captured.
decFilt(v, h) ==
    IF IsNaD(v) \/ IsNaD(h) THEN NaD
    ELSE IF LtD(v, Zero) \/ LtD(Zero, h) THEN v ELSE Zero

\* Hn.Apply(posFilt, &Hn)
ApplyPosFilt(A) == [r \in 1..Rows(A) |-> [k \in 1..Cols(A) |-> posFilt(A[r][k])]]

\* G.Apply(decFilt, G) with the factor F the closure reads.
ApplyDecFilt(G, F) == [r \in 1..Rows(G) |-> [k \in 1..Cols(G) |-> decFilt(G[r][k], F[r][k])]]

(***************************************************************************)
(* Constants of the program.                                               *)
(***************************************************************************)
\* alpha, beta := 1., 0.1
AlphaInit == One

Beta == D(1, 1)

\* The floor of the sub-tolerance factor, math.Max(0.001, c.Tolerance).
TolFloor == D(1, 3)

\* tolW *= 0.1 on the square of tolW.
TolShrinkSq == D(1, 2)

\* The weights of the sufficient-decrease test.
SuffG == D(99, 2)

SuffQ == D(5, 1)

\* alpha *= beta and alpha /= beta (dividing by 0.1 is multiplying by 10).
MulBeta(a) == MulD(a, Beta)

DivBeta(a) == MulD(a, D(10, 0))

(***************************************************************************)
(* Inputs.  V, Wo and Ho are non-negative, as the documentation of Factors *)
(* requires, with the shapes m x n, m x k and k x n.                       *)
(***************************************************************************)
\* 1 x 1 problems: m = k = n = 1.
ScalarV == {0, 1, 10}

ScalarW == {1, 10}

ScalarH == {0, 3, 4}

ScalarInputs ==
    { [V |-> IntMat(<<<<v>>>>), Wo |-> IntMat(<<<<w>>>>), Ho |-> IntMat(<<<<h>>>>)] :
        v \in ScalarV, w \in ScalarW, h \in ScalarH }

\* Two categories: m = n = 1, k = 2.
WideInputs ==
    { [V |-> IntMat(<<<<v>>>>), Wo |-> IntMat(w), Ho |-> IntMat(h)] :
        v \in {0, 1}, w \in {<<<<1, 0>>>>, <<<<1, 1>>>>}, h \in {<<<<0>>, <<1>>>>, <<<<1>>, <<1>>>>} }

\* A 2 x 2 matrix and one category: m = n = 2, k = 1.
RankOneInputs ==
    { [V |-> IntMat(v), Wo |-> IntMat(<<<<1>>, <<1>>>>), Ho |-> IntMat(h)] :
        v \in {<<<<1, 0>>, <<0, 1>>>>, <<<<1, 2>>, <<2, 4>>>>},
        h \in {<<<<1, 1>>>>, <<<<0, 1>>>>} }

Inputs == ScalarInputs \cup WideInputs \cup RankOneInputs

\* Config.Tolerance: 0 (below the floor of 0.001) and 0.1.
Tolerances == {Zero, D(1, 1)}

\* Each budget is 0 (where the program accepts it), 1 or the largest explored.
Configs ==
    [Tolerance : Tolerances, MaxIter : {0, 1, MaxIterBound}, Limit : {0, 1, TimeCap},
     MaxOuterSub : {0, 1, MaxOuterBound}, MaxInnerSub : {1, 2, MaxInnerBound}]

(***************************************************************************)
(* State.                                                                  *)
(***************************************************************************)
VARIABLES
    V, Wo, Ho, c,      \* the arguments of Factors
    W, H, ok,          \* its results
    gW, gH,            \* the gradients it keeps for the stopping test
    gradSq,            \* grad^2
    tolWSq, tolHSq,    \* tolW^2, tolH^2
    i,                 \* the index of its main loop
    elapsed,           \* time.Now().Sub(to)
    pc,                \* where the program is
    call,              \* which solve is running: "W", "H" or "none"
    sub,               \* the frame of the running nnlsSubproblem call
    obs                \* what has been observed of the run (history only)

vars == <<V, Wo, Ho, c, W, H, ok, gW, gH, gradSq, tolWSq, tolHSq, i, elapsed,
          pc, call, sub, obs>>

args == <<V, Wo, Ho, c>>

\* No call is running.
NoFrame == [V |-> <<>>, W |-> <<>>, Ho |-> <<>>, tol |-> Zero, outer |-> 0,
            inner |-> 0, H |-> <<>>, G |-> <<>>, i |-> 0, ok |-> FALSE,
            WtV |-> <<>>, WtW |-> <<>>, alpha |-> Zero, j |-> 0,
            reduce |-> FALSE, Hp |-> <<>>]

\* The objective ||V - W.H||_F^2.
Objective(v, w, h) == NormSq(Sub(v, Mul(w, h)))

NoObs == [solves |-> 0, hist |-> <<>>, accR |-> 0, accE |-> 0, Hb |-> <<>>,
          okb |-> FALSE, alphab |-> Zero, inner |-> "none", mode |-> "none",
          okW |-> FALSE,
          obj0 |-> Zero, obj |-> Zero]

Init ==
    /\ \E in \in Inputs : V = in.V /\ Wo = in.Wo /\ Ho = in.Ho /\ W = in.Wo /\ H = in.Ho
    /\ c \in Configs
    /\ ok = FALSE
    /\ gW = <<>> /\ gH = <<>>
    /\ gradSq = Zero /\ tolWSq = Zero /\ tolHSq = Zero
    /\ i = 0
    /\ elapsed = 0
    /\ pc = "init"
    /\ call = "none"
    /\ sub = NoFrame
    /\ obs = NoObs

(***************************************************************************)
(* Factors, lines 42-84: the initial gradients, grad and the two           *)
(* sub-tolerances.                                                         *)
(***************************************************************************)
\* gW = W.H.hT - V.hT
InitGradW(v, w, h) == Sub(Mul(w, Mul(h, TCopy(h))), Mul(v, TCopy(h)))

\* gH = wT.W.H - wT.V
InitGradH(v, w, h) == Sub(Mul(Mul(TCopy(w), w), h), Mul(TCopy(w), v))

\* grad^2, grad being the norm of gW stacked on the transpose of gH.
GradSq(g, h) == NormSq(Stack(g, TCopy(h)))

\* (math.Max(0.001, c.Tolerance) * grad)^2
InitTolSq(tolerance, gsq) ==
    LET f == MaxD(TolFloor, tolerance) IN MulD(MulD(f, f), gsq)

FactorsInit ==
    /\ pc = "init"
    /\ LET g0W == InitGradW(V, Wo, Ho)
           g0H == InitGradH(V, Wo, Ho)
           gsq == GradSq(g0W, g0H)
           tsq == InitTolSq(c.Tolerance, gsq)
           o   == Objective(V, Wo, Ho)
       IN  /\ Representable(g0W) /\ Representable(g0H)
           /\ ~IsNaD(gsq) /\ ~IsNaD(tsq) /\ ~IsNaD(o)
           /\ W' = Wo /\ H' = Ho
           /\ gW' = g0W /\ gH' = g0H
           /\ gradSq' = gsq
           /\ tolWSq' = tsq /\ tolHSq' = tsq
           /\ obs' = [obs EXCEPT !.obj0 = o, !.obj = o]
    /\ \E t \in 0..1 : elapsed' = t
    /\ pc' = "loop"
    /\ UNCHANGED <<args, ok, i, call, sub>>

(***************************************************************************)
(* Factors, lines 102-116: the head of the main loop.                      *)
(***************************************************************************)
\* Mutant of LoopCond: i <= c.MaxIter.
LoopCondInclusive(k, maxIter) == k <= maxIter

\* i < c.MaxIter
LoopCond(k, maxIter) == k < maxIter

\* proj^2: the sum of the squares of the data of gW and of gH.
ProjSq(g, h) == AddD(NormSq(g), NormSq(h))

\* proj < c.Tolerance*grad
Converged(psq, tolerance, gsq) == LtD(psq, MulD(MulD(tolerance, tolerance), gsq))

\* Mutant of TimedOut: the comparison is the wrong way round.
TimedOutReversed(t, limit) == limit > t

\* time.Now().Sub(to) > c.Limit
TimedOut(t, limit) == t > limit

LoopHead ==
    /\ pc = "loop"
    /\ IF LoopCond(i, c.MaxIter)
       THEN LET fW  == ApplyDecFilt(gW, W)
                fH  == ApplyDecFilt(gH, H)
                psq == ProjSq(fW, fH)
            IN  /\ ~IsNaD(psq)
                /\ ~IsNaD(MulD(MulD(c.Tolerance, c.Tolerance), gradSq))
                /\ gW' = fW /\ gH' = fH
                /\ pc' = IF Converged(psq, c.Tolerance, gradSq) \/ TimedOut(elapsed, c.Limit)
                         THEN "done" ELSE "callW"
       ELSE /\ pc' = "done"
            /\ UNCHANGED <<gW, gH>>
    /\ UNCHANGED <<args, W, H, ok, gradSq, tolWSq, tolHSq, i, elapsed, call, sub, obs>>

(***************************************************************************)
(* nnlsSubproblem, lines 151-170: entry.                                   *)
(***************************************************************************)
Frame(v, w, ho, tol, outer, inner) ==
    [V |-> v, W |-> w, Ho |-> ho, tol |-> tol, outer |-> outer, inner |-> inner,
     H |-> ho, G |-> <<>>, i |-> 0, ok |-> FALSE,
     WtV |-> Mul(TCopy(w), v), WtW |-> Mul(TCopy(w), w),
     alpha |-> AlphaInit, j |-> 0, reduce |-> FALSE, Hp |-> <<>>]

Enter(f) ==
    /\ Representable(f.WtV) /\ Representable(f.WtW)
    /\ sub' = f
    /\ obs' = [obs EXCEPT !.solves = @ + 1, !.accR = 0, !.accE = 0, !.Hb = f.Ho,
                          !.okb = FALSE, !.alphab = f.alpha, !.inner = "none",
                          !.mode = "none"]
    /\ pc' = "subOuter"

\* Factors, lines 118-121: W, gW, iter, ok = nnlsSubproblem(&vT, &hT, &wT, tolW, ...)
CallW ==
    /\ pc = "callW"
    /\ Enter(Frame(TCopy(V), TCopy(H), TCopy(W), tolWSq, c.MaxOuterSub, c.MaxInnerSub))
    /\ call' = "W"
    /\ UNCHANGED <<args, W, H, ok, gW, gH, gradSq, tolWSq, tolHSq, i, elapsed>>

\* Factors, line 134: H, gH, iter, _ok = nnlsSubproblem(V, W, H, tolH, ...)
CallH ==
    /\ pc = "callH"
    /\ Enter(Frame(V, W, H, tolHSq, c.MaxOuterSub, c.MaxInnerSub))
    /\ call' = "H"
    /\ UNCHANGED <<args, W, H, ok, gW, gH, gradSq, tolWSq, tolHSq, i, elapsed>>

(***************************************************************************)
(* nnlsSubproblem, lines 171-184: the head of the outer loop.              *)
(***************************************************************************)
\* Mutant of ProjGrad: G is not filtered.
ProjGradUnfiltered(wtw, wtv, h) == Sub(Mul(wtw, h), wtv)

\* G = decFilt(WtW.H - WtV), decFilt reading the current H.
ProjGrad(wtw, wtv, h) == ApplyDecFilt(Sub(Mul(wtw, h), wtv), h)

\* Mutant of WithinTol: G.Norm(0) > tol.
WithinTolReversed(g, tolSq) == LtD(tolSq, NormSq(g))

\* G.Norm(0) < tol
WithinTol(g, tolSq) == LtD(NormSq(g), tolSq)

SubOuter ==
    /\ pc = "subOuter"
    /\ IF sub.i < sub.outer
       THEN LET G == ProjGrad(sub.WtW, sub.WtV, sub.H)
            IN  /\ Representable(G) /\ ~IsNaD(NormSq(G))
                /\ IF WithinTol(G, sub.tol)
                   THEN /\ sub' = [sub EXCEPT !.G = G]
                        /\ pc' = "subRet"
                   ELSE /\ sub' = [sub EXCEPT !.G = G, !.j = 0, !.reduce = FALSE,
                                              !.Hp = <<>>]
                        /\ pc' = "subInner"
                /\ obs' = [obs EXCEPT !.Hb = sub.H, !.okb = sub.ok,
                                      !.alphab = sub.alpha, !.inner = "none",
                                      !.mode = "none"]
       ELSE /\ pc' = "subRet"
            /\ UNCHANGED <<sub, obs>>
    /\ UNCHANGED <<args, W, H, ok, gW, gH, gradSq, tolWSq, tolHSq, i, elapsed, call>>

(***************************************************************************)
(* nnlsSubproblem, lines 185-219: one iteration of the inner line search.  *)
(***************************************************************************)
\* Hn = posFilt(H - alpha*G)
Candidate(h, alpha, g) == ApplyPosFilt(Sub(h, Scale(alpha, g)))

\* 0.99*d.Sum() + 0.5*dQ.Sum(), with d = Hn - H, dQ = (WtW.d) (.) d and then
\* d = G (.) d.
SuffValue(wtw, g, h, hn) ==
    LET d  == Sub(hn, h)
        dQ == MulElem(Mul(wtw, d), d)
        dG == MulElem(g, d)
    IN  AddD(MulD(SuffG, Sum(dG)), MulD(SuffQ, Sum(dQ)))

\* sufficient := ... < 0
Sufficient(val) == LtD(val, Zero)

\* Mutant of ReduceStep: the test of the reduce branch is negated.
ReduceStepNegated(f, Hn, sufficient) ==
    IF ~sufficient
    THEN [f |-> [f EXCEPT !.H = Hn, !.ok = TRUE], brk |-> TRUE]
    ELSE [f |-> [f EXCEPT !.alpha = MulBeta(@)], brk |-> FALSE]

\* The reduce branch, lines 203-209.  brk: the loop is left.
ReduceStep(f, Hn, sufficient) ==
    IF sufficient
    THEN [f |-> [f EXCEPT !.H = Hn, !.ok = TRUE], brk |-> TRUE]
    ELSE [f |-> [f EXCEPT !.alpha = MulBeta(@)], brk |-> FALSE]

\* Mutant of ExpandStep: a candidate that passes is stored in H, not in Hp.
ExpandStepCommit(f, Hn, sufficient) ==
    IF ~sufficient \/ Equals(f.Hp, Hn)
    THEN [f |-> [f EXCEPT !.H = f.Hp], brk |-> TRUE]
    ELSE [f |-> [f EXCEPT !.alpha = DivBeta(@), !.H = Hn], brk |-> FALSE]

\* The expand branch, lines 211-217.
ExpandStep(f, Hn, sufficient) ==
    IF ~sufficient \/ Equals(f.Hp, Hn)
    THEN [f |-> [f EXCEPT !.H = f.Hp], brk |-> TRUE]
    ELSE [f |-> [f EXCEPT !.alpha = DivBeta(@), !.Hp = Hn], brk |-> FALSE]

\* The body of the inner loop for the candidate Hn.
InnerBody(f, Hn, sufficient) ==
    LET f1 == IF f.j = 0
              THEN [f EXCEPT !.reduce = ~sufficient, !.Hp = f.H]
              ELSE f
    IN  IF f1.reduce THEN ReduceStep(f1, Hn, sufficient)
                     ELSE ExpandStep(f1, Hn, sufficient)

SubInner ==
    /\ pc = "subInner"
    /\ IF sub.j < sub.inner
       THEN LET Hn  == Candidate(sub.H, sub.alpha, sub.G)
                val == SuffValue(sub.WtW, sub.G, sub.H, Hn)
                suf == Sufficient(val)
                r   == InnerBody(sub, Hn, suf)
            IN  /\ Representable(Hn) /\ ~IsNaD(val) /\ ~IsNaD(r.f.alpha)
                /\ sub' = IF r.brk THEN [r.f EXCEPT !.i = @ + 1]
                                   ELSE [r.f EXCEPT !.j = @ + 1]
                /\ pc' = IF r.brk THEN "subOuter" ELSE "subInner"
                /\ obs' = [obs EXCEPT
                             !.mode  = IF r.f.reduce THEN "reduce" ELSE "expand",
                             !.inner = IF r.brk THEN "break" ELSE "running",
                             !.accR  = IF r.brk /\ r.f.reduce THEN @ + 1 ELSE @,
                             !.accE  = IF r.brk /\ ~r.f.reduce /\ sub.j > 0
                                       THEN @ + 1 ELSE @]
       ELSE /\ sub' = [sub EXCEPT !.i = @ + 1]
            /\ pc' = "subOuter"
            /\ obs' = [obs EXCEPT !.inner = "exhausted"]
    /\ UNCHANGED <<args, W, H, ok, gW, gH, gradSq, tolWSq, tolHSq, i, elapsed, call>>

(***************************************************************************)
(* Factors, lines 121-138: the returns of the two solves.                  *)
(***************************************************************************)
\* if iter == 0 { tol *= 0.1 }
ShrinkTol(tolSq, iter) == IF iter = 0 THEN MulD(tolSq, TolShrinkSq) ELSE tolSq

\* Mutant of AndOk: ok = _ok.
AndOkDropW(okW, okH) == okH

\* ok = ok && _ok
AndOk(okW, okH) == okW /\ okH

\* Lines 121-132: W, gW, iter, ok are assigned and W, gW transposed back.
ReturnW ==
    /\ pc = "subRet" /\ call = "W"
    /\ ~IsNaD(ShrinkTol(tolWSq, sub.i))
    /\ W' = TCopy(sub.H)
    /\ gW' = TCopy(sub.G)
    /\ ok' = sub.ok
    /\ tolWSq' = ShrinkTol(tolWSq, sub.i)
    /\ obs' = [obs EXCEPT !.okW = sub.ok]
    /\ sub' = NoFrame
    /\ call' = "none"
    /\ pc' = "callH"
    /\ UNCHANGED <<args, H, gH, gradSq, tolHSq, i, elapsed>>

\* Lines 134-139: H, gH, iter, _ok are assigned, ok combined, and the
\* iteration ends; the iteration took 1..MaxTick clock units.
ReturnH ==
    /\ pc = "subRet" /\ call = "H"
    /\ ~IsNaD(ShrinkTol(tolHSq, sub.i))
    /\ ~IsNaD(Objective(V, W, sub.H))
    /\ H' = sub.H
    /\ gH' = sub.G
    /\ ok' = AndOk(ok, sub.ok)
    /\ tolHSq' = ShrinkTol(tolHSq, sub.i)
    /\ i' = i + 1
    /\ \E t \in 1..MaxTick : elapsed' = Min(elapsed + t, TimeCap)
    /\ obs' = [obs EXCEPT !.hist = Append(@, [w |-> obs.okW, h |-> sub.ok]),
                          !.obj = Objective(V, W, sub.H)]
    /\ sub' = NoFrame
    /\ call' = "none"
    /\ pc' = "loop"
    /\ UNCHANGED <<args, W, gW, gradSq, tolWSq>>

Next ==
    \/ FactorsInit
    \/ LoopHead
    \/ CallW
    \/ SubOuter
    \/ SubInner
    \/ ReturnW
    \/ CallH
    \/ ReturnH

Spec == Init /\ [][Next]_vars

(***************************************************************************)
(* Properties.                                                             *)
(***************************************************************************)
\* Factors is between two outer iterations or has returned.
AtIterationEnd == pc \in {"loop", "done"}

\* The flags of the two solves of the most recent completed outer iteration.
LastFlags == obs.hist[Len(obs.hist)]

NonNeg(A) == \A r \in 1..Rows(A) : \A k \in 1..Cols(A) : ~LtD(A[r][k], Zero)

\* The masked gradient WtW.h - WtV of the running solve at the factor h.
GradientAt(h) == ApplyDecFilt(Sub(Mul(sub.WtW, h), sub.WtV), h)

RECURSIVE AlphaAfter(_, _, _)
\* alpha after n rounds of alpha *= beta (reduce) or alpha /= beta (expand).
AlphaAfter(a, n, mode) ==
    IF n = 0 THEN a
    ELSE AlphaAfter(IF mode = "reduce" THEN MulD(a, D(1, 1)) ELSE MulD(a, D(10, 0)),
                    n - 1, mode)

\* C1: once an outer iteration has run its two solves, the ok of Factors is
\* the AND of the success flags of the W solve and the H solve of the most
\* recent such iteration, whatever the flags of earlier iterations were and
\* however the loop is left.
C1_OkIsLastIterationAnd ==
    (AtIterationEnd /\ Len(obs.hist) > 0) => (ok = (LastFlags.w /\ LastFlags.h))

\* C1 witness: Factors has returned ok = true after two iterations, the
\* first of which had a failed solve.
C1_Witness ==
    /\ pc = "done" /\ Len(obs.hist) >= 2 /\ ok
    /\ ~(obs.hist[1].w /\ obs.hist[1].h)

\* C2: with non-negative Wo and Ho, every entry of W and of H is >= 0 at the
\* end of every completed outer iteration and in what Factors returns.
C2_NonNegative ==
    (NonNeg(Wo) /\ NonNeg(Ho) /\ AtIterationEnd) => (NonNeg(W) /\ NonNeg(H))

\* C2 witness: Factors has returned after an iteration whose line search
\* brought a positive entry of Wo to the boundary 0.
C2_Witness ==
    /\ pc = "done" /\ Len(obs.hist) >= 1
    /\ \E r \in 1..Rows(W) : \E k \in 1..Cols(W) :
           LtD(Zero, Wo[r][k]) /\ W[r][k] = Zero

\* C3: with MaxIter = 0 no solve is ever started and Factors returns
\* W = Wo, H = Ho and ok = false.
C3_ZeroBudget ==
    (c.MaxIter = 0) =>
        /\ obs.solves = 0
        /\ pc = "done" => (W = Wo /\ H = Ho /\ ok = FALSE)

\* C3 witness: Factors has returned with MaxIter = 0 from inputs that are
\* not a stationary point.
C3_Witness == pc = "done" /\ c.MaxIter = 0 /\ gradSq # Zero

\* C4: when the elapsed time exceeds Limit at the check at the top of an
\* outer iteration, Factors starts no further solve and returns W, H and ok
\* as last computed; they are the inputs and false if no iteration
\* completed; and with Limit = 0 at most one outer iteration runs.
C4_TimeLimit ==
    /\ [][(pc = "loop" /\ i < c.MaxIter /\ elapsed > c.Limit) =>
             (pc' = "done" /\ W' = W /\ H' = H /\ ok' = ok
              /\ obs'.solves = obs.solves)]_vars
    /\ []((pc = "done" /\ Len(obs.hist) = 0) => (W = Wo /\ H = Ho /\ ok = FALSE))
    /\ []((c.Limit = 0) => (i <= 1 /\ obs.solves <= 2))

\* C4 witness: Factors has returned because of the time limit alone (the
\* tolerance 0 is never met and iterations were left), after at least one
\* iteration.
C4_Witness ==
    /\ pc = "done" /\ c.Tolerance = Zero /\ i >= 1 /\ i < c.MaxIter
    /\ elapsed > c.Limit

\* C5: whenever ok = true at the end of an outer iteration or at the return,
\* ||V - W.H||_F is at most ||V - Wo.Ho||_F.
C5_NoRegress ==
    (AtIterationEnd /\ ok) => ~LtD(obs.obj0, obs.obj)

\* C5 witness: Factors has returned ok = true with a strictly smaller
\* objective.
C5_Witness == pc = "done" /\ ok /\ LtD(obs.obj, obs.obj0)

\* C7 (as claimed): the ok that nnlsSubproblem returns is true if and only if
\* H was replaced by an accepted candidate, in reduce mode (H = Hn) or in
\* expand mode (H = Hp, Hp being a candidate that passed the test).
C7_OkIffAccepted ==
    (pc = "subRet") => (sub.ok <=> (obs.accR + obs.accE > 0))

\* C8 (as claimed): the G that nnlsSubproblem returns is the masked gradient
\* WtW.H - WtV at the H it returns, however the solve ends.
C8_GradIsCurrent ==
    (pc = "subRet" /\ Representable(GradientAt(sub.H))) => (sub.G = GradientAt(sub.H))

\* C8 (amended): the G that nnlsSubproblem returns is the last G computed:
\* the masked gradient at the H held at the head of the last outer
\* sub-iteration entered.  It is the gradient at the returned H when the
\* solve ends by the tolerance test; it is the empty matrix when
\* maxOuter = 0.
C8_GradIsLastComputed ==
    (pc = "subRet") =>
        IF sub.outer = 0
        THEN sub.G = <<>> /\ sub.H = sub.Ho
        ELSE /\ sub.G = GradientAt(obs.Hb)
             /\ (sub.i < sub.outer) => (obs.Hb = sub.H)

\* C8 witness: a solve returns after exhausting maxOuter with an H that its
\* last line search changed, so that G is the gradient at the previous H.
C8_Witness ==
    /\ pc = "subRet" /\ sub.outer > 0 /\ sub.i = sub.outer /\ sub.H # obs.Hb
    /\ Representable(GradientAt(sub.H)) /\ sub.G # GradientAt(sub.H)

\* C9 (as claimed): a solve returns the iteration count 0 only when the
\* norm of the masked gradient at the initial factor is below tol, and then
\* the returned factor is the initial factor.
C9_ZeroIterMeansWithinTol ==
    (pc = "subRet" /\ sub.i = 0) =>
        /\ sub.H = sub.Ho
        /\ LtD(NormSq(GradientAt(sub.Ho)), sub.tol)

\* C9 (amended): a solve returns the iteration count 0 only when maxOuter = 0
\* (no sub-iteration ran) or the norm of the masked gradient at the initial
\* factor is below tol, and then the returned factor is the initial factor;
\* Factors multiplies tolW (tolH) by 0.1 only on such a return.
C9_ZeroIterAmended ==
    /\ []((pc = "subRet" /\ sub.i = 0) =>
            /\ sub.H = sub.Ho
            /\ sub.outer = 0 \/ LtD(NormSq(GradientAt(sub.Ho)), sub.tol))
    /\ [][(tolWSq' # tolWSq /\ pc # "init") =>
             (pc = "subRet" /\ call = "W" /\ sub.i = 0
              /\ tolWSq' = MulD(tolWSq, D(1, 2)))]_vars
    /\ [][(tolHSq' # tolHSq /\ pc # "init") =>
             (pc = "subRet" /\ call = "H" /\ sub.i = 0
              /\ tolHSq' = MulD(tolHSq, D(1, 2)))]_vars

\* C9 witness: a solve with maxOuter >= 1 returns the count 0 for a block
\* whose gradient is not zero, and a sub-tolerance has been shrunk.
C9_Witness ==
    /\ pc = "subRet" /\ sub.i = 0 /\ sub.outer > 0
    /\ NormSq(sub.G) # Zero

\* C10: when an inner line search runs all maxInner iterations without
\* breaking, H and ok are as they were at the head of that outer
\* sub-iteration, in reduce mode and in expand mode (where the candidates
\* that passed are held in Hp only); alpha has been multiplied (reduce) or
\* divided (expand) by beta maxInner times.
C10_ExhaustedLeavesH ==
    (pc \in {"subOuter", "subRet"} /\ obs.inner = "exhausted") =>
        /\ sub.H = obs.Hb
        /\ sub.ok = obs.okb
        /\ sub.alpha = AlphaAfter(obs.alphab, sub.inner, obs.mode)
        /\ (obs.mode = "expand") => (sub.Hp # sub.H)

\* C10 witness: an inner line search of at least two iterations was
\* exhausted in expand mode.
C10_Witness ==
    /\ pc = "subOuter" /\ obs.inner = "exhausted" /\ obs.mode = "expand"
    /\ sub.inner >= 2

====
